---- MODULE Spec2Model ----
(***************************************************************************)
(* Voucher / expense aggregate of the Expense Manager application.          *)
(*                                                                          *)
(* The state is the relational store (tables users, vouchers, expenses) and *)
(* the requests in flight.  Every handler is an async function that         *)
(* suspends at each store call (await); one action of this module is one    *)
(* store call together with the synchronous code that follows it up to the  *)
(* next await or to the response.  Requests of different callers            *)
(* interleave at these points, nothing else orders them.                    *)
(*                                                                          *)
(* Money is DECIMAL(10,2) in the store; it is kept here in hundredths       *)
(* (250.00 is 25000).  Timestamps are logical: a later NOW() is a larger    *)
(* number.                                                                  *)
(***************************************************************************)
EXTENDS Integers, FiniteSets, Sequences, TLC

\* ------------------------------------------------------------------ bounds
NumProcs == 2          \* requests that can be in flight together
MaxOps == 4            \* requests accepted in one behaviour
MaxVouchers == 2       \* voucher ids ever generated
MaxExpenses == 2       \* expense ids ever generated
MaxFailures == 1       \* store calls that return an error in one behaviour
AuthMaxOps == 3        \* requests let into their handler through the middleware

Procs == 1..NumProcs
VoucherIds == 1..MaxVouchers
ExpenseIds == 1..MaxExpenses
Users == {"A", "B"}

\* ---------------------------------------------------------- request inputs
\* Optional fields of a JSON body are sets with at most one element: {} is
\* "field absent" (undefined / SQL NULL), {x} is "field present with value x".
Present(f) == f # {}
Val(f) == CHOOSE x \in f : TRUE

\* add-expense-modal.tsx: const cost = watchDistance * 3.5 (rupees per km),
\* here in hundredths per km.
FuelRate == 350

\* req.body of POST /api/vouchers: the five fields the handler destructures
\* (name, department, description, start_date, end_date; description is
\* optional and only stored) and two it never reads although a client may
\* send them.  The requests tried: a complete one, the same with a status
\* and a total added, one without name, one without department, one
\* without start_date, a single-day range and a reversed range.
VoucherBody(n, d, s, e, st, t) ==
    [name |-> n, department |-> d, start_date |-> s, end_date |-> e,
     status |-> st, total_amount |-> t]

VoucherBodies ==
    { VoucherBody("Trip", "Ops", 1, 2, {}, {}),
      VoucherBody("Trip", "Ops", 1, 2, {"submitted"}, {700}),
      VoucherBody("", "Ops", 1, 2, {}, {}),
      VoucherBody("Trip", "", 1, 2, {}, {}),
      VoucherBody("Trip", "Ops", 0, 2, {}, {}),
      VoucherBody("Trip", "Ops", 2, 2, {}, {}),
      VoucherBody("Trip", "Ops", 2, 1, {}, {}) }

\* req.body of POST /api/vouchers/:id/expenses.  The requests tried: a cab
\* fare, a negative one, a zero one, one without amount, a fuel expense
\* whose amount is distance * 3.5, and a fuel expense whose amount is
\* something else.
ExpenseBody(t, a, d, dt) ==
    [transport_type |-> t, amount |-> a, distance |-> d, datetime |-> dt]

ExpenseBodies ==
    { ExpenseBody("cab", {100}, {}, 1),
      ExpenseBody("cab", {-100}, {}, 2),
      ExpenseBody("cab", {0}, {}, 1),
      ExpenseBody("cab", {}, {}, 1),
      ExpenseBody("fuel", {2 * FuelRate}, {2}, 1),
      ExpenseBody("fuel", {100}, {2}, 2) }

AmountInputs == UNION { b.amount : b \in ExpenseBodies }

\* req.body of PATCH /api/vouchers/:id: columns of the voucher, here one
\* column per request.
PatchBodies ==
    { b \in [status : {{}, {"draft"}, {"submitted"}},
             total_amount : {{}, {700}},
             user_id : {{}} \cup {{u} : u \in Users}] :
        Cardinality({ f \in {"s", "t", "u"} :
                        \/ f = "s" /\ Present(b.status)
                        \/ f = "t" /\ Present(b.total_amount)
                        \/ f = "u" /\ Present(b.user_id) }) = 1 }

\* Partial<InsertExpense> of SupabaseStorage.updateExpense, one column per
\* call.
ExpenseUpdates ==
    { d \in [amount : {{}} \cup {{a} : a \in AmountInputs},
             voucher_id : {{}} \cup {{v} : v \in VoucherIds}] :
        Present(d.amount) # Present(d.voucher_id) }

NoBody == [none |-> TRUE]

VARIABLES
    vouchers,        \* table vouchers: id -> row, for the rows that exist
    expenses,        \* table expenses: id -> row, for the rows that exist
    nextVoucherId,   \* gen_random_uuid(): ids are never reused
    nextExpenseId,
    req,             \* the request each process is handling, and its locals
    response,        \* the last response sent: the finished request and its status
    opCount,         \* requests accepted so far
    failures,        \* store calls that have returned an error so far
    users,           \* table users: id -> row, for the rows that exist
    client           \* the browser: the ["vouchers"] query cache and the mutations

vars == <<vouchers, expenses, nextVoucherId, nextExpenseId, req, response, opCount, failures, users, client>>

\* ------------------------------------------------------------------- store
ExpensesOf(v) == { e \in DOMAIN expenses : expenses[e].voucher_id = v }

RECURSIVE SumAmounts(_)
SumAmounts(S) ==
    IF S = {} THEN 0
    ELSE LET e == CHOOSE x \in S : TRUE
         IN  expenses[e].amount + SumAmounts(S \ {e})

\* What "select amount from expenses where voucher_id = v" followed by the
\* reduce over parseFloat(amount) yields, as stored back into DECIMAL(10,2).
TotalOf(v) == SumAmounts(ExpensesOf(v))

\* supabase-js .single(): exactly one row is data, anything else is the
\* error PGRST116; a failing store call is any other error.
Single(rows, fail) ==
    IF fail THEN [data |-> {}, error |-> "store"]
    ELSE IF Cardinality(rows) = 1 THEN [data |-> rows, error |-> "none"]
    ELSE [data |-> {}, error |-> "PGRST116"]

\* vouchers where id = v and user_id = u
OwnedVouchers(v, u) ==
    { w \in DOMAIN vouchers : w = v /\ vouchers[w].user_id = u }

Range(seq) == { seq[i] : i \in 1..Len(seq) }
Remove(f, S) == [x \in DOMAIN f \ S |-> f[x]]
Put(f, k, row) == [x \in DOMAIN f \cup {k} |-> IF x = k THEN row ELSE f[x]]

\* ---------------------------------------------------------------- requests
Idle ==
    [kind |-> "idle", pc |-> "idle", user |-> "-", vid |-> 0, eid |-> 0,
     body |-> NoBody, evid |-> 0, total |-> 0,
     expensesError |-> FALSE, updateError |-> FALSE, status |-> "none",
     view |-> NoBody]

\* One store call: it returns its result, or an error (fail) with no effect
\* on the store.
StoreCall(fail) ==
    /\ fail => failures < MaxFailures
    /\ failures' = IF fail THEN failures + 1 ELSE failures

\* A process takes a request when it is not in the middle of one.
Accept(p) == req[p].pc = "idle" /\ opCount < MaxOps

\* The handler of process p goes on as r: to its next store call, or, with
\* r.pc = "done", to the response, after which the process is free again.
\* Nothing a handler does reaches into the browser.
Step(p, r) ==
    /\ IF r.pc = "done"
       THEN /\ response' = r
            /\ req' = [req EXCEPT ![p] = Idle]
       ELSE /\ req' = [req EXCEPT ![p] = r]
            /\ UNCHANGED response
    /\ UNCHANGED client

\* The row verifySupabaseToken creates for a caller it has not seen before.
MinimalUser == [department |-> ""]

\* The browser before the dashboard has loaded anything: no data under the
\* query key, nothing requested, no mutation under way.
NoClient ==
    [cache |-> NoBody, invalidated |-> FALSE, refetchDue |-> FALSE, fetched |-> "none",
     waiting |-> "none", ticket |-> 0, mutation |-> "idle", snapshot |-> NoBody,
     voucherId |-> 0, newExpense |-> NoBody, formData |-> NoBody]

\* Nothing stored, nothing in flight.
Started ==
    /\ client = NoClient
    /\ vouchers = << >>
    /\ expenses = << >>
    /\ nextVoucherId = 1
    /\ nextExpenseId = 1
    /\ req = [p \in Procs |-> Idle]
    /\ response = Idle
    /\ opCount = 0
    /\ failures = 0

\* The routes are entered with req.user set by the middleware, which first
\* makes sure that the caller has a row in users.  Init is the store once
\* each caller has been through the middleware: the rows it creates, and
\* nothing else.
Init == Started /\ users = [u \in Users |-> MinimalUser]

\* -------------------------------------------------- POST /api/vouchers
\* A handler that took status and total_amount from the request body when
\* the client sends them.
InsertDataFromBody(user, body) ==
    [user_id |-> user, name |-> body.name, department |-> body.department,
     start_date |-> body.start_date, end_date |-> body.end_date,
     status |-> IF Present(body.status) THEN Val(body.status) ELSE "draft",
     total_amount |-> IF Present(body.total_amount) THEN Val(body.total_amount) ELSE 0,
     updated_at |-> 0]

\* The row the handler inserts: the caller's id, the validated fields, and
\* the literals status "draft" and total_amount "0".  status and
\* total_amount of the request body are not read.  updated_at is the
\* column default NOW(), the origin of the row's logical time.
InsertData(user, body) ==
    [user_id |-> user, name |-> body.name, department |-> body.department,
     start_date |-> body.start_date, end_date |-> body.end_date,
     status |-> "draft", total_amount |-> 0, updated_at |-> 0]

\* if (!name || !department || !start_date || !end_date) -> 400; a missing
\* or empty string is "", a missing date is 0.
MissingFields(body) ==
    \/ body.name = "" \/ body.department = ""
    \/ body.start_date = 0 \/ body.end_date = 0

\* if (startDate >= endDate) -> 400
InvalidRange(body) == body.start_date >= body.end_date

\* Validation, the table probe and the insert.  The probe reads no row of
\* the model and writes nothing, so probe and insert are one step; fail is
\* either of them returning an error.  A request that fails validation
\* makes no store call.
CreateVoucher(p, user, body, fail) ==
    /\ Accept(p)
    /\ nextVoucherId <= MaxVouchers
    /\ opCount' = opCount + 1
    /\ LET bad == MissingFields(body) \/ InvalidRange(body)
           st == IF bad THEN "400" ELSE IF fail THEN "500" ELSE "200"
       IN  /\ bad => ~fail
           /\ StoreCall(fail)
           /\ Step(p, [Idle EXCEPT !.kind = "createVoucher", !.pc = "done",
                                   !.user = user, !.body = body,
                                   !.vid = IF st = "200" THEN nextVoucherId ELSE 0,
                                   !.status = st])
           /\ IF st = "200"
              THEN /\ vouchers' = Put(vouchers, nextVoucherId, InsertData(user, body))
                   /\ nextVoucherId' = nextVoucherId + 1
              ELSE UNCHANGED <<vouchers, nextVoucherId>>
    /\ UNCHANGED <<expenses, nextExpenseId, users>>

\* ----------------------------------------------- PATCH /api/vouchers/:id
\* BEFORE UPDATE trigger update_vouchers_updated_at: NEW.updated_at = NOW().
Touch(row) == [row EXCEPT !.updated_at = @ + 1]

\* .update(updateData): every column named in the body is overwritten.
ApplyPatch(row, body) ==
    [row EXCEPT
       !.status = IF Present(body.status) THEN Val(body.status) ELSE @,
       !.total_amount = IF Present(body.total_amount) THEN Val(body.total_amount) ELSE @,
       !.user_id = IF Present(body.user_id) THEN Val(body.user_id) ELSE @]

\* update(updateData).eq(id).eq(user_id).select().single(): one statement.
\* No row matched is the .single() error, answered 500 like a store error,
\* and so is a user_id that names no row of users (foreign key).
PatchVoucher(p, user, v, body, fail) ==
    /\ Accept(p)
    /\ StoreCall(fail)
    /\ opCount' = opCount + 1
    /\ LET fk == Present(body.user_id) /\ Val(body.user_id) \notin DOMAIN users
           r == Single(OwnedVouchers(v, user), fail \/ fk)
       IN  /\ Step(p, [Idle EXCEPT !.kind = "patchVoucher", !.pc = "done",
                                   !.user = user, !.vid = v, !.body = body,
                                   !.status = IF r.error # "none" THEN "500" ELSE "200"])
           /\ vouchers' = IF r.error = "none"
                          THEN [vouchers EXCEPT ![v] = Touch(ApplyPatch(@, body))]
                          ELSE vouchers
    /\ UNCHANGED <<expenses, nextVoucherId, nextExpenseId, users>>

\* ------------------------------- VoucherCard.submitVoucherMutation (client)
\* supabase.from("vouchers").update({status: "submitted"}).eq("id", id) with
\* the caller's own session: row level security restricts the update to
\* rows with user_id = auth.uid().  Zero rows updated is not an error.
SubmitVoucher(p, user, v, fail) ==
    /\ Accept(p)
    /\ StoreCall(fail)
    /\ opCount' = opCount + 1
    /\ Step(p, [Idle EXCEPT !.kind = "submitVoucher", !.pc = "done",
                            !.user = user, !.vid = v,
                            !.status = IF fail THEN "error" ELSE "ok"])
    /\ vouchers' = IF ~fail /\ OwnedVouchers(v, user) # {}
                   THEN [vouchers EXCEPT ![v] = Touch([@ EXCEPT !.status = "submitted"])]
                   ELSE vouchers
    /\ UNCHANGED <<expenses, nextVoucherId, nextExpenseId, users>>

\* ---------------------------------------------- DELETE /api/vouchers/:id
\* select id ... .eq(id).eq(user_id).single(); if (fetchError || !voucher) 404
DeleteVoucherFetch(p, user, v, fail) ==
    /\ Accept(p)
    /\ StoreCall(fail)
    /\ opCount' = opCount + 1
    /\ LET r == Single(OwnedVouchers(v, user), fail)
           found == r.error = "none"
       IN  Step(p, [Idle EXCEPT !.kind = "deleteVoucher", !.user = user, !.vid = v,
                                !.pc = IF found THEN "delete" ELSE "done",
                                !.status = IF found THEN "none" ELSE "404"])
    /\ UNCHANGED <<vouchers, expenses, nextVoucherId, nextExpenseId, users>>

\* A voucher delete on a schema whose expenses.voucher_id has no ON DELETE
\* CASCADE and no foreign key: the voucher row goes, its expenses stay.
DeleteVoucherDeleteNoCascade(p, fail) ==
    /\ req[p].kind = "deleteVoucher" /\ req[p].pc = "delete"
    /\ StoreCall(fail)
    /\ vouchers' = Remove(vouchers, IF fail THEN {} ELSE OwnedVouchers(req[p].vid, req[p].user))
    /\ Step(p, [req[p] EXCEPT !.pc = "done",
                              !.status = IF fail THEN "500" ELSE "200"])
    /\ UNCHANGED <<expenses, nextVoucherId, nextExpenseId, opCount, users>>

\* delete ... .eq(id).eq(user_id); expenses.voucher_id is ON DELETE CASCADE.
DeleteVoucherDelete(p, fail) ==
    /\ req[p].kind = "deleteVoucher" /\ req[p].pc = "delete"
    /\ StoreCall(fail)
    /\ LET gone == IF fail THEN {} ELSE OwnedVouchers(req[p].vid, req[p].user)
       IN  /\ vouchers' = Remove(vouchers, gone)
           /\ expenses' = Remove(expenses,
                                 { e \in DOMAIN expenses : expenses[e].voucher_id \in gone })
    /\ Step(p, [req[p] EXCEPT !.pc = "done",
                              !.status = IF fail THEN "500" ELSE "200"])
    /\ UNCHANGED <<nextVoucherId, nextExpenseId, opCount, users>>

\* ------------------------------------- POST /api/vouchers/:id/expenses
\* The row the handler inserts: voucher_id from the path and the body's
\* fields as the client sent them.
ExpenseRow(v, body) ==
    [voucher_id |-> v, transport_type |-> body.transport_type,
     amount |-> Val(body.amount), distance |-> body.distance,
     datetime |-> body.datetime]

\* Expense ids still to be generated for inserts already on their way.
PendingInserts == Cardinality({ q \in Procs : req[q].kind = "addExpense" /\ req[q].pc = "insert" })

\* select id from vouchers .eq(id).eq(user_id).single().  The .single()
\* error for "no row" has code PGRST116, which the handler answers 503; any
\* other error is 500.  (With .single() a null voucher without an error
\* does not occur, so the 404 branch is not reached.)
AddExpenseFetch(p, user, v, body, fail) ==
    /\ Accept(p)
    /\ StoreCall(fail)
    /\ nextExpenseId + PendingInserts <= MaxExpenses
    /\ opCount' = opCount + 1
    /\ LET r == Single(OwnedVouchers(v, user), fail)
       IN  Step(p, [Idle EXCEPT !.kind = "addExpense", !.user = user, !.vid = v,
                                !.body = body,
                                !.pc = IF r.error = "none" THEN "insert" ELSE "done",
                                !.status = CASE r.error = "none" -> "none"
                                             [] r.error = "PGRST116" -> "503"
                                             [] OTHER -> "500"])
    /\ UNCHANGED <<vouchers, expenses, nextVoucherId, nextExpenseId, users>>

\* insert into expenses ... .select().single(); a voucher deleted since the
\* ownership check makes the insert fail on the foreign key, an absent
\* amount on the column's NOT NULL.
AddExpenseInsert(p, fail) ==
    /\ req[p].kind = "addExpense" /\ req[p].pc = "insert"
    /\ StoreCall(fail)
    /\ LET ok == ~fail /\ req[p].vid \in DOMAIN vouchers /\ Present(req[p].body.amount)
       IN  IF ok
           THEN /\ expenses' = Put(expenses, nextExpenseId, ExpenseRow(req[p].vid, req[p].body))
                /\ nextExpenseId' = nextExpenseId + 1
                /\ Step(p, [req[p] EXCEPT !.pc = "select", !.eid = nextExpenseId,
                                          !.evid = req[p].vid])
           ELSE /\ Step(p, [req[p] EXCEPT !.pc = "done", !.status = "500"])
                /\ UNCHANGED <<expenses, nextExpenseId>>
    /\ UNCHANGED <<vouchers, nextVoucherId, opCount, users>>

\* "Update voucher total amount", first half: select amount from expenses
\* .eq(voucher_id) and, if (!expensesError && expenses), the reduce.  With
\* an error the handler skips the update and answers as if nothing happened.
SelectAmounts(p, fail, ok) ==
    /\ Step(p, [req[p] EXCEPT !.expensesError = fail,
                              !.total = IF fail THEN 0 ELSE TotalOf(req[p].evid),
                              !.pc = IF fail THEN "done" ELSE "update",
                              !.status = IF fail THEN ok ELSE "none"])
    /\ UNCHANGED <<vouchers, expenses, nextVoucherId, nextExpenseId, opCount, users>>

\* Second half: await update vouchers set total_amount = totalAmount
\* .eq(id).  The result of the await is not looked at.
UpdateTotal(p, fail, ok) ==
    /\ vouchers' = IF ~fail /\ req[p].evid \in DOMAIN vouchers
                   THEN [vouchers EXCEPT ![req[p].evid] =
                           Touch([@ EXCEPT !.total_amount = req[p].total])]
                   ELSE vouchers
    /\ Step(p, [req[p] EXCEPT !.updateError = fail, !.pc = "done", !.status = ok])
    /\ UNCHANGED <<expenses, nextVoucherId, nextExpenseId, opCount, users>>

AddExpenseSelect(p, fail) ==
    /\ req[p].kind = "addExpense" /\ req[p].pc = "select"
    /\ StoreCall(fail)
    /\ SelectAmounts(p, fail, "200")

AddExpenseUpdate(p, fail) ==
    /\ req[p].kind = "addExpense" /\ req[p].pc = "update"
    /\ StoreCall(fail)
    /\ UpdateTotal(p, fail, "200")

\* ---------------------------------------------- DELETE /api/expenses/:id
\* select voucher_id, vouchers!inner(user_id) from expenses .eq(id)
\* .single(): an error (no such expense included) is 500; an expense of
\* somebody else's voucher is 403.
DeleteExpenseFetch(p, user, e, fail) ==
    /\ Accept(p)
    /\ StoreCall(fail)
    /\ opCount' = opCount + 1
    /\ LET r == Single({ x \in DOMAIN expenses : x = e }, fail)
           st == IF r.error # "none" THEN "500"
                 ELSE IF vouchers[expenses[e].voucher_id].user_id # user THEN "403"
                 ELSE "none"
       IN  Step(p, [Idle EXCEPT !.kind = "deleteExpense", !.user = user, !.eid = e,
                                !.evid = IF st = "none" THEN expenses[e].voucher_id ELSE 0,
                                !.vid = IF st = "none" THEN expenses[e].voucher_id ELSE 0,
                                !.pc = IF st = "none" THEN "delete" ELSE "done",
                                !.status = st])
    /\ UNCHANGED <<vouchers, expenses, nextVoucherId, nextExpenseId, users>>

\* delete from expenses .eq(id)
DeleteExpenseDelete(p, fail) ==
    /\ req[p].kind = "deleteExpense" /\ req[p].pc = "delete"
    /\ StoreCall(fail)
    /\ expenses' = IF fail THEN expenses ELSE Remove(expenses, {req[p].eid})
    /\ Step(p, [req[p] EXCEPT !.pc = IF fail THEN "done" ELSE "select",
                              !.status = IF fail THEN "500" ELSE "none"])
    /\ UNCHANGED <<vouchers, nextVoucherId, nextExpenseId, opCount, users>>

DeleteExpenseSelect(p, fail) ==
    /\ req[p].kind = "deleteExpense" /\ req[p].pc = "select"
    /\ StoreCall(fail)
    /\ SelectAmounts(p, fail, "200")

DeleteExpenseUpdate(p, fail) ==
    /\ req[p].kind = "deleteExpense" /\ req[p].pc = "update"
    /\ StoreCall(fail)
    /\ UpdateTotal(p, fail, "200")

\* ------------------------------------------ SupabaseStorage.updateExpense
\* The storage layer runs its statements through drizzle, where a failing
\* statement throws: the method ends there, what it wrote before stays.

\* .set(expenseData): the columns named in the partial record.
ApplyExpenseData(row, data) ==
    [row EXCEPT
       !.amount = IF Present(data.amount) THEN Val(data.amount) ELSE @,
       !.voucher_id = IF Present(data.voucher_id) THEN Val(data.voucher_id) ELSE @]

\* select id, voucher_id from expenses inner join vouchers
\* where expenses.id = id and vouchers.user_id = userId
UpdateExpenseFetch(p, user, e, data, fail) ==
    /\ Accept(p)
    /\ StoreCall(fail)
    /\ opCount' = opCount + 1
    /\ LET rows == { x \in DOMAIN expenses :
                       x = e /\ vouchers[expenses[x].voucher_id].user_id = user }
           st == IF fail THEN "throws" ELSE IF rows = {} THEN "undefined" ELSE "none"
       IN  Step(p, [Idle EXCEPT !.kind = "updateExpense", !.user = user, !.eid = e,
                                !.body = data,
                                !.evid = IF st = "none" THEN expenses[e].voucher_id ELSE 0,
                                !.vid = IF st = "none" THEN expenses[e].voucher_id ELSE 0,
                                !.pc = IF st = "none" THEN "set" ELSE "done",
                                !.status = st])
    /\ UNCHANGED <<vouchers, expenses, nextVoucherId, nextExpenseId, users>>

\* update expenses set ... where id = id returning *; a voucher_id that
\* names no voucher violates the foreign key.  The value to return is the
\* updated row, or undefined when the row is gone.
UpdateExpenseSet(p, fail) ==
    /\ req[p].kind = "updateExpense" /\ req[p].pc = "set"
    /\ StoreCall(fail)
    /\ LET e == req[p].eid
           data == req[p].body
           hit == e \in DOMAIN expenses
           fk == hit /\ Present(data.voucher_id) /\ Val(data.voucher_id) \notin DOMAIN vouchers
       IN  IF fail \/ fk
           THEN /\ Step(p, [req[p] EXCEPT !.pc = "done", !.status = "throws"])
                /\ UNCHANGED expenses
           ELSE /\ expenses' = IF hit
                               THEN [expenses EXCEPT ![e] = ApplyExpenseData(@, data)]
                               ELSE expenses
                /\ Step(p, [req[p] EXCEPT !.pc = "sum",
                                          !.status = IF hit THEN "value" ELSE "undefined"])
    /\ UNCHANGED <<vouchers, nextVoucherId, nextExpenseId, opCount, users>>

\* updateVoucherTotal(expense.voucher_id), first statement:
\* select sum(amount) from expenses where voucher_id = voucherId; || "0"
UpdateExpenseSum(p, fail) ==
    /\ req[p].kind = "updateExpense" /\ req[p].pc = "sum"
    /\ StoreCall(fail)
    /\ Step(p, [req[p] EXCEPT !.total = IF fail THEN 0 ELSE TotalOf(req[p].evid),
                              !.pc = IF fail THEN "done" ELSE "total",
                              !.status = IF fail THEN "throws" ELSE @])
    /\ UNCHANGED <<vouchers, expenses, nextVoucherId, nextExpenseId, opCount, users>>

\* second statement: update vouchers set total_amount = total,
\* updated_at = new Date() where id = voucherId
UpdateExpenseTotal(p, fail) ==
    /\ req[p].kind = "updateExpense" /\ req[p].pc = "total"
    /\ StoreCall(fail)
    /\ vouchers' = IF ~fail /\ req[p].evid \in DOMAIN vouchers
                   THEN [vouchers EXCEPT ![req[p].evid] =
                           Touch([@ EXCEPT !.total_amount = req[p].total])]
                   ELSE vouchers
    /\ Step(p, [req[p] EXCEPT !.pc = "done",
                              !.status = IF fail THEN "throws" ELSE @])
    /\ UNCHANGED <<expenses, nextVoucherId, nextExpenseId, opCount, users>>

\* ----------------------------------------- SupabaseStorage.getVoucherById
\* select * from vouchers where id = id and user_id = userId;
\* if (!voucher) return undefined
GetVoucherFetch(p, user, v, fail) ==
    /\ Accept(p)
    /\ StoreCall(fail)
    /\ opCount' = opCount + 1
    /\ LET found == OwnedVouchers(v, user) # {}
           st == IF fail THEN "throws" ELSE IF found THEN "none" ELSE "undefined"
       IN  Step(p, [Idle EXCEPT !.kind = "getVoucher", !.user = user, !.vid = v,
                                !.total = IF st = "none" THEN vouchers[v].total_amount ELSE 0,
                                !.pc = IF st = "none" THEN "expenses" ELSE "done",
                                !.status = st])
    /\ UNCHANGED <<vouchers, expenses, nextVoucherId, nextExpenseId, users>>

\* order by datetime desc: every adjacent pair is in descending order; rows
\* with equal datetime come in whatever order the store returns them.
OrderedDesc(seq) ==
    \A i \in 1..(Len(seq) - 1) : expenses[seq[i]].datetime >= expenses[seq[i + 1]].datetime

Orderings(S) ==
    { seq \in [1..Cardinality(S) -> S] :
        /\ \A i, j \in 1..Cardinality(S) : i # j => seq[i] # seq[j]
        /\ OrderedDesc(seq) }

\* select * from expenses where voucher_id = id order by datetime desc;
\* the view is the voucher with the list and expenseCount = list.length
GetVoucherExpenses(p, fail) ==
    /\ req[p].kind = "getVoucher" /\ req[p].pc = "expenses"
    /\ StoreCall(fail)
    /\ IF fail
       THEN Step(p, [req[p] EXCEPT !.pc = "done", !.status = "throws"])
       ELSE \E seq \in Orderings(ExpensesOf(req[p].vid)) :
              Step(p, [req[p] EXCEPT !.pc = "done", !.status = "value",
                                     !.view = [expenses |-> seq, expenseCount |-> Len(seq)]])
    /\ UNCHANGED <<vouchers, expenses, nextVoucherId, nextExpenseId, opCount, users>>

\* --------------------------------------------------- GET /api/vouchers
\* The rows of S in an order the store is free to choose (a select without
\* ORDER BY on these rows).
AnyOrder(S) ==
    { seq \in [1..Cardinality(S) -> S] :
        \A i, j \in 1..Cardinality(S) : i # j => seq[i] # seq[j] }

\* The caller's vouchers, .order("created_at", {ascending: false}): ids are
\* handed out in the order of creation.
RECURSIVE NewestFirst(_)
NewestFirst(S) ==
    IF S = {} THEN << >>
    ELSE LET m == CHOOSE x \in S : \A y \in S : y <= x
         IN  <<m>> \o NewestFirst(S \ {m})

\* totalAmount: voucher.total_amount, for each voucher of the answer.
TotalAmounts(mine) == [v \in mine |-> vouchers[v].total_amount]

\* The table probe and select *, expenses (*) from vouchers
\* .eq("user_id", authUser.id).order("created_at", {ascending: false}).
\* The probe reads no row of the model, so probe and select are one step.
\* The embedded expenses carry no order clause.  Each voucher is answered
\* with expenses and expenseCount = expenses.length.
ListVouchers(p, user, fail) ==
    /\ Accept(p)
    /\ StoreCall(fail)
    /\ opCount' = opCount + 1
    /\ LET mine == { v \in DOMAIN vouchers : vouchers[v].user_id = user }
       IN  IF fail
           THEN Step(p, [Idle EXCEPT !.kind = "listVouchers", !.pc = "done",
                                     !.user = user, !.status = "500"])
           ELSE \E ex \in { f \in [mine -> UNION { AnyOrder(ExpensesOf(v)) : v \in mine }] :
                               \A v \in mine : f[v] \in AnyOrder(ExpensesOf(v)) } :
                  Step(p, [Idle EXCEPT !.kind = "listVouchers", !.pc = "done",
                                       !.user = user, !.status = "200",
                                       !.view = [vouchers |-> NewestFirst(mine),
                                                 totalAmount |-> TotalAmounts(mine),
                                                 expenses |-> ex,
                                                 expenseCount |-> [v \in mine |-> Len(ex[v])]]])
    /\ UNCHANGED <<vouchers, expenses, nextVoucherId, nextExpenseId, users>>

\* The same route in its two-query form.  First query: select ... from
\* vouchers .eq("user_id", userId).order("created_at", {ascending: false})
\* .limit(200); an error is answered 403 or 500 by its code, here "500".
\* With no voucher the expenses are not asked for and the answer is the
\* empty list.
ListVouchersSelect(p, user, fail) ==
    /\ Accept(p)
    /\ StoreCall(fail)
    /\ opCount' = opCount + 1
    /\ LET mine == { v \in DOMAIN vouchers : vouchers[v].user_id = user }
           r == [Idle EXCEPT !.kind = "listVouchersTwoQueries", !.user = user,
                             !.view = [vouchers |-> NewestFirst(mine),
                                       totalAmount |-> TotalAmounts(mine),
                                       expenses |-> [v \in mine |-> << >>],
                                       expenseCount |-> [v \in mine |-> 0]]]
       IN  IF fail
           THEN Step(p, [r EXCEPT !.pc = "done", !.status = "500", !.view = NoBody])
           ELSE IF mine = {}
           THEN Step(p, [r EXCEPT !.pc = "done", !.status = "200"])
           ELSE Step(p, [r EXCEPT !.pc = "expenses"])
    /\ UNCHANGED <<vouchers, expenses, nextVoucherId, nextExpenseId, users>>

\* The reduce that groups the fetched expenses: acc[expense.voucher_id]
\* gets the expense pushed, in the order of the rows.
GroupByVoucher(rows, v) ==
    SelectSeq(rows, LAMBDA e : expenses[e].voucher_id = v)

\* Second query: select ... from expenses .in("voucher_id", voucherIds)
\* .order("datetime", {ascending: false}).  if (expensesError): "Continue
\* without expenses rather than failing completely", expensesData = [].
\* The answer is 200 in both cases.
ListVouchersExpenses(p, fail) ==
    /\ req[p].kind = "listVouchersTwoQueries" /\ req[p].pc = "expenses"
    /\ StoreCall(fail)
    /\ LET ids == DOMAIN req[p].view.expenses
           found == { e \in DOMAIN expenses : expenses[e].voucher_id \in ids }
       IN  \E expensesData \in (IF fail THEN {<< >>} ELSE Orderings(found)) :
              LET ex == [v \in ids |-> GroupByVoucher(expensesData, v)]
              IN  Step(p, [req[p] EXCEPT !.pc = "done", !.status = "200",
                                         !.expensesError = fail,
                                         !.view.expenses = ex,
                                         !.view.expenseCount = [v \in ids |-> Len(ex[v])]])
    /\ UNCHANGED <<vouchers, expenses, nextVoucherId, nextExpenseId, opCount, users>>

\* ------------------------------------ SupabaseStorage.getVouchersByUserId
\* The rows of vouchers left join expenses where vouchers.user_id = userId
\* order by vouchers.created_at desc: a voucher without expenses gives one
\* row with a null expense, a voucher with expenses one row per expense, in
\* an order the store chooses within the voucher.
JoinRows(mine) ==
    { f \in [mine -> UNION { AnyOrder(ExpensesOf(v)) : v \in mine }] :
        \A v \in mine : f[v] \in AnyOrder(ExpensesOf(v)) }

\* One statement, then the grouping into voucherMap by row.id and
\* expenseCount = voucher.expenses.length.  A failing statement throws.
GetVouchersByUserId(p, user, fail) ==
    /\ Accept(p)
    /\ StoreCall(fail)
    /\ opCount' = opCount + 1
    /\ LET mine == { v \in DOMAIN vouchers : vouchers[v].user_id = user }
           r == [Idle EXCEPT !.kind = "getVouchersByUserId", !.user = user, !.pc = "done"]
       IN  IF fail
           THEN Step(p, [r EXCEPT !.status = "throws"])
           ELSE \E ex \in JoinRows(mine) :
                  Step(p, [r EXCEPT !.status = "value",
                                    !.view = [vouchers |-> NewestFirst(mine),
                                              totalAmount |-> TotalAmounts(mine),
                                              expenses |-> ex,
                                              expenseCount |-> [v \in mine |-> Len(ex[v])]]])
    /\ UNCHANGED <<vouchers, expenses, nextVoucherId, nextExpenseId, users>>

\* ------------------------------------- SupabaseStorage.updateVoucherTotal
\* select sum(amount) from expenses where voucher_id = voucherId;
\* total = result?.total || "0"
UpdateVoucherTotalSum(p, v, fail) ==
    /\ Accept(p)
    /\ StoreCall(fail)
    /\ opCount' = opCount + 1
    /\ Step(p, [Idle EXCEPT !.kind = "updateVoucherTotal", !.vid = v, !.evid = v,
                            !.total = IF fail THEN 0 ELSE TotalOf(v),
                            !.pc = IF fail THEN "done" ELSE "total",
                            !.status = IF fail THEN "throws" ELSE "none"])
    /\ UNCHANGED <<vouchers, expenses, nextVoucherId, nextExpenseId, users>>

\* A recompute that adds what it summed to the total already stored.
RecomputedRowAdding(row, total) ==
    Touch([row EXCEPT !.total_amount = @ + total])

\* .set({ total_amount: total, updated_at: new Date() })
RecomputedRow(row, total) ==
    Touch([row EXCEPT !.total_amount = total])

\* update vouchers set ... where id = voucherId
UpdateVoucherTotalSet(p, fail) ==
    /\ req[p].kind = "updateVoucherTotal" /\ req[p].pc = "total"
    /\ StoreCall(fail)
    /\ vouchers' = IF ~fail /\ req[p].evid \in DOMAIN vouchers
                   THEN [vouchers EXCEPT ![req[p].evid] = RecomputedRow(@, req[p].total)]
                   ELSE vouchers
    /\ Step(p, [req[p] EXCEPT !.pc = "done",
                              !.status = IF fail THEN "throws" ELSE "ok"])
    /\ UNCHANGED <<expenses, nextVoucherId, nextExpenseId, opCount, users>>

\* ----------------------------------------------- GET /api/user/profile
\* select first_name, last_name, department from users .eq(id)
\* .maybeSingle(); if (error || !data) the handler inserts the row.
GetProfileSelect(p, user, fail) ==
    /\ Accept(p)
    /\ StoreCall(fail)
    /\ opCount' = opCount + 1
    /\ LET found == ~fail /\ user \in DOMAIN users
       IN  Step(p, [Idle EXCEPT !.kind = "getProfile", !.user = user,
                                !.pc = IF found THEN "done" ELSE "insert",
                                !.status = IF found THEN "200" ELSE "none",
                                !.view = IF found
                                         THEN [department |-> users[user].department]
                                         ELSE NoBody])
    /\ UNCHANGED <<vouchers, expenses, nextVoucherId, nextExpenseId, users>>

\* insert into users {id, email, department: "Operations"}; the primary key
\* refuses a second row with the id.
GetProfileInsert(p, fail) ==
    /\ req[p].kind = "getProfile" /\ req[p].pc = "insert"
    /\ StoreCall(fail)
    /\ IF fail \/ req[p].user \in DOMAIN users
       THEN /\ Step(p, [req[p] EXCEPT !.pc = "done", !.status = "500"])
            /\ UNCHANGED users
       ELSE /\ users' = Put(users, req[p].user, [department |-> "Operations"])
            /\ Step(p, [req[p] EXCEPT !.pc = "done", !.status = "200",
                                      !.view = [department |-> "Operations"]])
    /\ UNCHANGED <<vouchers, expenses, nextVoucherId, nextExpenseId, opCount>>

\* --------------------------------------------- PATCH /api/user/profile
\* req.body of PATCH /api/user/profile: department empty (or absent) and
\* department given.
ProfileBodies == { [department |-> ""], [department |-> "Sales"] }

\* upsert {id, email, first_name, last_name,
\*         department: department || "Operations"} .select().single()
PatchProfile(p, user, body, fail) ==
    /\ Accept(p)
    /\ StoreCall(fail)
    /\ opCount' = opCount + 1
    /\ users' = IF fail THEN users
                ELSE Put(users, user,
                         [department |-> IF body.department = "" THEN "Operations"
                                         ELSE body.department])
    /\ Step(p, [Idle EXCEPT !.kind = "patchProfile", !.pc = "done", !.user = user,
                            !.body = body, !.status = IF fail THEN "500" ELSE "200"])
    /\ UNCHANGED <<vouchers, expenses, nextVoucherId, nextExpenseId>>

\* ------------------------------------------------ verifySupabaseToken
\* The Authorization header of a request: absent, not of the form
\* "Bearer ...", "Bearer " followed by nothing, a token the identity
\* provider rejects, and the tokens of the two users.
Credentials == {"missing", "malformed", "empty", "rejected", "tokenA", "tokenB"}

\* supabase.auth.getUser(token): the user of the token, or none (error).
IdentityOf(cred) ==
    CASE cred = "tokenA" -> {"A"}
      [] cred = "tokenB" -> {"B"}
      [] OTHER -> {}

\* A middleware that tests the header and never asks the identity provider.
CredentialRefusedByHeaderOnly(cred) ==
    \/ cred \in {"missing", "malformed"}
    \/ cred = "empty"

\* if (!authHeader || typeof authHeader !== "string" ||
\*     !authHeader.startsWith("Bearer ")) -> 401; if (!token) -> 401;
\* if (error || !data?.user) -> 401.
CredentialRefused(cred) ==
    \/ cred \in {"missing", "malformed"}
    \/ cred = "empty"
    \/ IdentityOf(cred) = {}

\* What supabase.auth.getUser yields for a request the middleware lets
\* through: sbUser.id.
SbUser(cred) == IF IdentityOf(cred) = {} THEN "-" ELSE Val(IdentityOf(cred))

\* Requests that are in the middleware or at the entry of their handler.
InMiddleware == Cardinality({ q \in Procs : req[q].kind \in {"verify", "next"} })

\* The header tests and supabase.auth.getUser(token).  The identity
\* provider is not the store: the call reads and writes no table.
VerifyToken(p, cred) ==
    /\ req[p] = Idle
    /\ opCount + InMiddleware < AuthMaxOps
    /\ Step(p, [Idle EXCEPT !.kind = "verify", !.body = [cred |-> cred],
                            !.user = IF CredentialRefused(cred) THEN "-" ELSE SbUser(cred),
                            !.pc = IF CredentialRefused(cred) THEN "done" ELSE "existing",
                            !.status = IF CredentialRefused(cred) THEN "401" ELSE "none"])
    /\ UNCHANGED <<vouchers, expenses, nextVoucherId, nextExpenseId, opCount, failures, users>>

\* The storage layer throws on a failing statement; the middleware's catch
\* answers 500 "Authentication failed".
AuthThrows(p) == Step(p, [req[p] EXCEPT !.pc = "done", !.status = "500"])

\* const existing = await storage.getUser(sbUser.id);
\* if (!existing) createOrUpdateUser(...)
AuthGetExisting(p, fail) ==
    /\ req[p].kind = "verify" /\ req[p].pc = "existing"
    /\ StoreCall(fail)
    /\ IF fail THEN AuthThrows(p)
       ELSE Step(p, [req[p] EXCEPT !.pc = IF req[p].user \in DOMAIN users
                                          THEN "record" ELSE "createSelect"])
    /\ UNCHANGED <<vouchers, expenses, nextVoucherId, nextExpenseId, opCount, users>>

\* createOrUpdateUser: select * from users where id = userData.id;
\* if (existingUser) update ... else insert ...
AuthCreateSelect(p, fail) ==
    /\ req[p].kind = "verify" /\ req[p].pc = "createSelect"
    /\ StoreCall(fail)
    /\ IF fail THEN AuthThrows(p)
       ELSE Step(p, [req[p] EXCEPT !.pc = IF req[p].user \in DOMAIN users
                                          THEN "createUpdate" ELSE "createInsert"])
    /\ UNCHANGED <<vouchers, expenses, nextVoucherId, nextExpenseId, opCount, users>>

\* update users set email, first_name, last_name, department = "" ...
\* where id = userData.id
AuthCreateUpdate(p, fail) ==
    /\ req[p].kind = "verify" /\ req[p].pc = "createUpdate"
    /\ StoreCall(fail)
    /\ IF fail
       THEN AuthThrows(p) /\ UNCHANGED users
       ELSE /\ users' = [u \in DOMAIN users |->
                           IF u = req[p].user THEN MinimalUser ELSE users[u]]
            /\ Step(p, [req[p] EXCEPT !.pc = "record"])
    /\ UNCHANGED <<vouchers, expenses, nextVoucherId, nextExpenseId, opCount>>

\* insert into users values (userData); users.id is the primary key, a
\* second row with the id is refused and the statement throws.
AuthCreateInsert(p, fail) ==
    /\ req[p].kind = "verify" /\ req[p].pc = "createInsert"
    /\ StoreCall(fail)
    /\ IF fail \/ req[p].user \in DOMAIN users
       THEN AuthThrows(p) /\ UNCHANGED users
       ELSE /\ users' = Put(users, req[p].user, MinimalUser)
            /\ Step(p, [req[p] EXCEPT !.pc = "record"])
    /\ UNCHANGED <<vouchers, expenses, nextVoucherId, nextExpenseId, opCount>>

\* The request after next(): req.user is set, the route handler is entered.
Authenticated(cred, id) ==
    [Idle EXCEPT !.kind = "next", !.body = [cred |-> cred], !.user = id]

\* const userRecord = await storage.getUser(sbUser.id);
\* if (!userRecord) -> 500; req.user = {id: userRecord.id, ...}; next()
AuthGetRecord(p, fail) ==
    /\ req[p].kind = "verify" /\ req[p].pc = "record"
    /\ StoreCall(fail)
    /\ IF fail \/ req[p].user \notin DOMAIN users
       THEN AuthThrows(p)
       ELSE Step(p, Authenticated(req[p].body.cred, req[p].user))
    /\ UNCHANGED <<vouchers, expenses, nextVoucherId, nextExpenseId, opCount, users>>

\* ------------------------------------------------------------------- next
Next ==
    \/ \E p \in Procs, user \in Users, body \in VoucherBodies, fail \in BOOLEAN :
         CreateVoucher(p, user, body, fail)
    \/ \E p \in Procs, user \in Users, v \in VoucherIds, body \in PatchBodies, fail \in BOOLEAN :
         PatchVoucher(p, user, v, body, fail)
    \/ \E p \in Procs, user \in Users, v \in VoucherIds, fail \in BOOLEAN :
         SubmitVoucher(p, user, v, fail)
    \/ \E p \in Procs, user \in Users, v \in VoucherIds, fail \in BOOLEAN :
         DeleteVoucherFetch(p, user, v, fail)
    \/ \E p \in Procs, fail \in BOOLEAN : DeleteVoucherDelete(p, fail)
    \/ \E p \in Procs, user \in Users, v \in VoucherIds, body \in ExpenseBodies, fail \in BOOLEAN :
         AddExpenseFetch(p, user, v, body, fail)
    \/ \E p \in Procs, fail \in BOOLEAN : AddExpenseInsert(p, fail)
    \/ \E p \in Procs, fail \in BOOLEAN : AddExpenseSelect(p, fail)
    \/ \E p \in Procs, fail \in BOOLEAN : AddExpenseUpdate(p, fail)
    \/ \E p \in Procs, user \in Users, e \in ExpenseIds, fail \in BOOLEAN :
         DeleteExpenseFetch(p, user, e, fail)
    \/ \E p \in Procs, fail \in BOOLEAN : DeleteExpenseDelete(p, fail)
    \/ \E p \in Procs, fail \in BOOLEAN : DeleteExpenseSelect(p, fail)
    \/ \E p \in Procs, fail \in BOOLEAN : DeleteExpenseUpdate(p, fail)
    \/ \E p \in Procs, user \in Users, e \in ExpenseIds, data \in ExpenseUpdates, fail \in BOOLEAN :
         UpdateExpenseFetch(p, user, e, data, fail)
    \/ \E p \in Procs, fail \in BOOLEAN : UpdateExpenseSet(p, fail)
    \/ \E p \in Procs, fail \in BOOLEAN : UpdateExpenseSum(p, fail)
    \/ \E p \in Procs, fail \in BOOLEAN : UpdateExpenseTotal(p, fail)
    \/ \E p \in Procs, user \in Users, v \in VoucherIds, fail \in BOOLEAN :
         GetVoucherFetch(p, user, v, fail)
    \/ \E p \in Procs, fail \in BOOLEAN : GetVoucherExpenses(p, fail)
    \/ \E p \in Procs, user \in Users, fail \in BOOLEAN : ListVouchers(p, user, fail)


Spec == Init /\ [][Next]_vars

\* The routes as registered, app.METHOD(path, verifySupabaseToken, handler):
\* a request goes through the middleware, and the handler is entered by
\* next() with the req.user the middleware has set.  The store starts
\* empty: no user has a row.
AuthInit == Started /\ users = << >>

Entered(p) == req[p].kind = "next"

AuthNext ==
    \/ \E p \in Procs, cred \in Credentials : VerifyToken(p, cred)
    \/ \E p \in Procs, fail \in BOOLEAN : AuthGetExisting(p, fail)
    \/ \E p \in Procs, fail \in BOOLEAN : AuthCreateSelect(p, fail)
    \/ \E p \in Procs, fail \in BOOLEAN : AuthCreateUpdate(p, fail)
    \/ \E p \in Procs, fail \in BOOLEAN : AuthCreateInsert(p, fail)
    \/ \E p \in Procs, fail \in BOOLEAN : AuthGetRecord(p, fail)
    \/ \E p \in Procs, fail \in BOOLEAN :
         Entered(p) /\ GetProfileSelect(p, req[p].user, fail)
    \/ \E p \in Procs, fail \in BOOLEAN : GetProfileInsert(p, fail)
    \/ \E p \in Procs, body \in ProfileBodies, fail \in BOOLEAN :
         Entered(p) /\ PatchProfile(p, req[p].user, body, fail)
    \/ \E p \in Procs, fail \in BOOLEAN :
         Entered(p) /\ ListVouchers(p, req[p].user, fail)
    \/ \E p \in Procs, body \in VoucherBodies, fail \in BOOLEAN :
         Entered(p) /\ CreateVoucher(p, req[p].user, body, fail)
    \/ \E p \in Procs, v \in VoucherIds, body \in PatchBodies, fail \in BOOLEAN :
         Entered(p) /\ PatchVoucher(p, req[p].user, v, body, fail)
    \/ \E p \in Procs, v \in VoucherIds, fail \in BOOLEAN :
         Entered(p) /\ DeleteVoucherFetch(p, req[p].user, v, fail)
    \/ \E p \in Procs, fail \in BOOLEAN : DeleteVoucherDelete(p, fail)
    \/ \E p \in Procs, v \in VoucherIds, body \in ExpenseBodies, fail \in BOOLEAN :
         Entered(p) /\ AddExpenseFetch(p, req[p].user, v, body, fail)
    \/ \E p \in Procs, fail \in BOOLEAN : AddExpenseInsert(p, fail)
    \/ \E p \in Procs, fail \in BOOLEAN : AddExpenseSelect(p, fail)
    \/ \E p \in Procs, fail \in BOOLEAN : AddExpenseUpdate(p, fail)
    \/ \E p \in Procs, e \in ExpenseIds, fail \in BOOLEAN :
         Entered(p) /\ DeleteExpenseFetch(p, req[p].user, e, fail)
    \/ \E p \in Procs, fail \in BOOLEAN : DeleteExpenseDelete(p, fail)
    \/ \E p \in Procs, fail \in BOOLEAN : DeleteExpenseSelect(p, fail)
    \/ \E p \in Procs, fail \in BOOLEAN : DeleteExpenseUpdate(p, fail)

AuthSpec == AuthInit /\ [][AuthNext]_vars

\* The same program with one request at a time: a request is accepted only
\* when no handler is in the middle of its store calls.
NoneInFlight == \A q \in Procs : req[q].pc = "idle"
SeqNext == Next /\ (opCount' # opCount => NoneInFlight)
SeqSpec == Init /\ [][SeqNext]_vars

\* The views and the recompute, one request at a time, over the routes that
\* make and change what they read.
ViewNext ==
    /\ \/ \E p \in Procs, user \in Users, body \in VoucherBodies, fail \in BOOLEAN :
            CreateVoucher(p, user, body, fail)
       \/ \E p \in Procs, user \in Users, v \in VoucherIds, body \in PatchBodies, fail \in BOOLEAN :
            PatchVoucher(p, user, v, body, fail)
       \/ \E p \in Procs, user \in Users, v \in VoucherIds, body \in ExpenseBodies, fail \in BOOLEAN :
            AddExpenseFetch(p, user, v, body, fail)
       \/ \E p \in Procs, fail \in BOOLEAN : AddExpenseInsert(p, fail)
       \/ \E p \in Procs, fail \in BOOLEAN : AddExpenseSelect(p, fail)
       \/ \E p \in Procs, fail \in BOOLEAN : AddExpenseUpdate(p, fail)
       \/ \E p \in Procs, user \in Users, e \in ExpenseIds, fail \in BOOLEAN :
            DeleteExpenseFetch(p, user, e, fail)
       \/ \E p \in Procs, fail \in BOOLEAN : DeleteExpenseDelete(p, fail)
       \/ \E p \in Procs, fail \in BOOLEAN : DeleteExpenseSelect(p, fail)
       \/ \E p \in Procs, fail \in BOOLEAN : DeleteExpenseUpdate(p, fail)
       \/ \E p \in Procs, user \in Users, fail \in BOOLEAN : ListVouchers(p, user, fail)
       \/ \E p \in Procs, user \in Users, fail \in BOOLEAN : ListVouchersSelect(p, user, fail)
       \/ \E p \in Procs, fail \in BOOLEAN : ListVouchersExpenses(p, fail)
       \/ \E p \in Procs, user \in Users, fail \in BOOLEAN : GetVouchersByUserId(p, user, fail)
       \/ \E p \in Procs, v \in VoucherIds, fail \in BOOLEAN : UpdateVoucherTotalSum(p, v, fail)
       \/ \E p \in Procs, fail \in BOOLEAN : UpdateVoucherTotalSet(p, fail)
    /\ opCount' # opCount => NoneInFlight

ViewSpec == Init /\ [][ViewNext]_vars

\* ------------------------------------------------------------ the browser
\* One signed-in user with the dashboard open.  The browser has one request
\* under way at a time (waiting), sent when opCount was ticket: the server
\* has taken it once opCount is past ticket, and has answered it once no
\* handler is in flight.
ClientUser == "A"

\* id: `temp-${Date.now()}` of the optimistic expense
TempId == 0

\* What the add-expense form submits: description, datetime and amount are
\* required, and for fuel the amount is distance * 3.5.
ClientExpenses ==
    { ExpenseBody("cab", {100}, {}, 1),
      ExpenseBody("fuel", {2 * FuelRate}, {2}, 1) }

\* What the create-voucher form submits: name, department and both dates
\* are required and the end is not before the start.
FormInputs ==
    { [name |-> "Trip", department |-> "Ops", startDate |-> 1, endDate |-> 2],
      [name |-> "Trip", department |-> "Ops", startDate |-> 2, endDate |-> 2] }

\* requestBody of createVoucherMutation: the keys the client sends.
RequestBody(data) ==
    [name |-> data.name, department |-> data.department,
     startDate |-> data.startDate, endDate |-> data.endDate]

\* const { name, department, description, start_date, end_date } = req.body:
\* a key the body does not have is undefined ("" for a string, 0 for a
\* date).
Destructured(body) ==
    VoucherBody(IF "name" \in DOMAIN body THEN body.name ELSE "",
                IF "department" \in DOMAIN body THEN body.department ELSE "",
                IF "start_date" \in DOMAIN body THEN body.start_date ELSE 0,
                IF "end_date" \in DOMAIN body THEN body.end_date ELSE 0,
                {}, {})

\* Requests other than the refetch leave room, within MaxOps, for the
\* refetch an invalidation has already asked for.
Budget(n) == opCount + n + (IF client.refetchDue THEN 1 ELSE 0) <= MaxOps

Answered == client.waiting # "none" /\ opCount > client.ticket /\ NoneInFlight

\* queryClient.invalidateQueries({ queryKey: ["vouchers"] }): the query is
\* marked invalid and, being mounted, is fetched again.
Invalidate(c) == [c EXCEPT !.invalidated = TRUE, !.refetchDue = TRUE]

\* useQuery({ queryKey: ["vouchers"], enabled: !!user, retry: false }): the
\* fetch on mount when there is no data, and the refetch after an
\* invalidation.
QueryStart ==
    /\ client.waiting = "none"
    /\ client.refetchDue \/ (client.cache = NoBody /\ client.fetched = "none")
    /\ opCount < MaxOps
    /\ client' = [client EXCEPT !.waiting = "query", !.ticket = opCount,
                                !.refetchDue = FALSE]
    /\ UNCHANGED <<vouchers, expenses, nextVoucherId, nextExpenseId, req, response,
                   opCount, failures, users>>

\* queryFn: fetch('/api/vouchers') with the session's token
QueryServed(p, fail) ==
    /\ client.waiting = "query" /\ opCount = client.ticket
    /\ ListVouchers(p, ClientUser, fail)

\* response.ok: the array becomes the query's data; otherwise the queryFn
\* throws and the data stays what it was.
QuerySettled ==
    /\ client.waiting = "query" /\ Answered
    /\ client' = IF response.status = "200"
                 THEN [client EXCEPT !.waiting = "none", !.cache = response.view,
                                     !.invalidated = FALSE, !.fetched = "data"]
                 ELSE [client EXCEPT !.waiting = "none", !.fetched = "error"]
    /\ UNCHANGED <<vouchers, expenses, nextVoucherId, nextExpenseId, req, response,
                   opCount, failures, users>>

\* An updater that changes every voucher of the list.
OptimisticUpdateOfAll(old, voucherId, newExpense) ==
    IF old = NoBody THEN old
    ELSE [old EXCEPT
            !.expenses = [v \in DOMAIN @ |-> Append(@[v], TempId)],
            !.expenseCount = [v \in DOMAIN @ |-> @[v] + 1],
            !.totalAmount = [v \in DOMAIN @ |-> @[v] + Val(newExpense.amount)]]

\* The updater of setQueryData: if (!old) return old; old.map(voucher =>
\* voucher.id === voucherId ? {...voucher, expenses: [...expenses,
\* optimisticExpense], expenseCount: expenseCount + 1, totalAmount:
\* parseFloat(totalAmount) + parseFloat(newExpense.amount)} : voucher)
OptimisticUpdate(old, voucherId, newExpense) ==
    IF old = NoBody THEN old
    ELSE [old EXCEPT
            !.expenses = [v \in DOMAIN @ |->
                            IF v = voucherId THEN Append(@[v], TempId) ELSE @[v]],
            !.expenseCount = [v \in DOMAIN @ |->
                                IF v = voucherId THEN @[v] + 1 ELSE @[v]],
            !.totalAmount = [v \in DOMAIN @ |->
                               IF v = voucherId THEN @[v] + Val(newExpense.amount)
                               ELSE @[v]]]

\* createExpenseMutation.mutate(data), onMutate: cancelQueries (a fetch
\* under way is dropped), previousVouchers = getQueryData, setQueryData
\* with the updater.  The modal is opened from a voucher of the list.  (An
\* invalidation starts its fetch at once, before the user's next action.)
OnMutate(voucherId, newExpense) ==
    /\ client.mutation = "idle" /\ client.waiting \in {"none", "query"}
    /\ ~client.refetchDue
    /\ client.cache # NoBody /\ voucherId \in Range(client.cache.vouchers)
    /\ nextExpenseId <= MaxExpenses
    /\ Budget(2)
    /\ client' = [client EXCEPT
                     !.waiting = "mutation", !.ticket = opCount,
                     !.mutation = "pending",
                     !.voucherId = voucherId, !.newExpense = newExpense,
                     !.snapshot = client.cache,
                     !.cache = OptimisticUpdate(client.cache, voucherId, newExpense)]
    /\ UNCHANGED <<vouchers, expenses, nextVoucherId, nextExpenseId, req, response,
                   opCount, failures, users>>

\* mutationFn: apiRequest("POST", `/api/vouchers/${voucherId}/expenses`,
\* {...data, voucher_id: voucherId})
MutationServed(p, fail) ==
    /\ client.waiting = "mutation" /\ opCount = client.ticket
    /\ AddExpenseFetch(p, ClientUser, client.voucherId, client.newExpense, fail)

\* onSuccess (apiRequest did not throw: res.ok): invalidateQueries
MutationSucceeded ==
    /\ client.waiting = "mutation" /\ Answered
    /\ response.status = "200"
    /\ client' = [Invalidate(client) EXCEPT !.waiting = "none", !.mutation = "success",
                                            !.fetched = "none"]
    /\ UNCHANGED <<vouchers, expenses, nextVoucherId, nextExpenseId, req, response,
                   opCount, failures, users>>

\* onError: if (context?.previousVouchers) setQueryData(previousVouchers)
MutationFailed ==
    /\ client.waiting = "mutation" /\ Answered
    /\ response.status # "200"
    /\ client' = [client EXCEPT !.waiting = "none", !.mutation = "error",
                                !.fetched = "none",
                                !.cache = IF client.snapshot # NoBody
                                          THEN client.snapshot ELSE @]
    /\ UNCHANGED <<vouchers, expenses, nextVoucherId, nextExpenseId, req, response,
                   opCount, failures, users>>

\* onSettled: invalidateQueries, after success and after error
MutationSettled ==
    /\ client.mutation \in {"success", "error"}
    /\ client.waiting \in {"none", "query"}
    /\ client' = [Invalidate(client) EXCEPT !.mutation = "idle"]
    /\ UNCHANGED <<vouchers, expenses, nextVoucherId, nextExpenseId, req, response,
                   opCount, failures, users>>

\* createVoucherMutation.mutate(data) of the create-voucher form
FormSubmit(data) ==
    /\ client.waiting = "none" /\ client.mutation = "idle"
    /\ ~client.refetchDue
    /\ nextVoucherId <= MaxVouchers
    /\ Budget(1)
    /\ client' = [client EXCEPT !.waiting = "form", !.ticket = opCount,
                                !.formData = data]
    /\ UNCHANGED <<vouchers, expenses, nextVoucherId, nextExpenseId, req, response,
                   opCount, failures, users>>

\* fetch('/api/vouchers', { method: 'POST', body: JSON.stringify(requestBody) })
FormServed(p, fail) ==
    /\ client.waiting = "form" /\ opCount = client.ticket
    /\ CreateVoucher(p, ClientUser, Destructured(RequestBody(client.formData)), fail)

\* response.ok: onSuccess invalidates the query; otherwise the mutationFn
\* throws and onError shows the message.
FormSettled ==
    /\ client.waiting = "form" /\ Answered
    /\ client' = IF response.status = "200"
                 THEN [Invalidate(client) EXCEPT !.waiting = "none"]
                 ELSE [client EXCEPT !.waiting = "none"]
    /\ UNCHANGED <<vouchers, expenses, nextVoucherId, nextExpenseId, req, response,
                   opCount, failures, users>>

\* Somebody else's request, or the user's own from elsewhere, while the
\* browser is not waiting for an answer.
ElsewhereCreateVoucher(p, user, body, fail) ==
    /\ client.waiting = "none" /\ client.mutation = "idle"
    /\ Budget(1)
    /\ CreateVoucher(p, user, body, fail)

\* The vouchers there are when the dashboard opens: none, or some that the
\* users have created through POST /api/vouchers.
SeededOwners == { << >>, <<"A">>, <<"A", "A">>, <<"A", "B">> }

ClientInit ==
    /\ client = NoClient
    /\ \E owners \in SeededOwners :
          /\ vouchers = [v \in 1..Len(owners) |->
                           InsertData(owners[v], VoucherBody("Trip", "Ops", 1, 2, {}, {}))]
          /\ nextVoucherId = Len(owners) + 1
    /\ expenses = << >>
    /\ nextExpenseId = 1
    /\ req = [p \in Procs |-> Idle]
    /\ response = Idle
    /\ opCount = 0
    /\ failures = 0
    /\ users = [u \in Users |-> MinimalUser]

ClientNext ==
    \/ QueryStart
    \/ \E p \in Procs, fail \in BOOLEAN : QueryServed(p, fail)
    \/ QuerySettled
    \/ \E v \in VoucherIds, e \in ClientExpenses : OnMutate(v, e)
    \/ \E p \in Procs, fail \in BOOLEAN : MutationServed(p, fail)
    \/ \E p \in Procs, fail \in BOOLEAN : AddExpenseInsert(p, fail)
    \/ \E p \in Procs, fail \in BOOLEAN : AddExpenseSelect(p, fail)
    \/ \E p \in Procs, fail \in BOOLEAN : AddExpenseUpdate(p, fail)
    \/ MutationSucceeded
    \/ MutationFailed
    \/ MutationSettled
    \/ \E data \in FormInputs : FormSubmit(data)
    \/ \E p \in Procs, fail \in BOOLEAN : FormServed(p, fail)
    \/ FormSettled
    \/ \E p \in Procs, user \in Users, body \in VoucherBodies, fail \in BOOLEAN :
         ElsewhereCreateVoucher(p, user, body, fail)

ClientSpec == ClientInit /\ [][ClientNext]_vars

\* The server answers what it has accepted, and the query client runs its
\* callbacks and the fetches it has decided on.
ClientFairness ==
    /\ WF_vars(QueryStart)
    /\ WF_vars(\E p \in Procs, fail \in BOOLEAN : QueryServed(p, fail))
    /\ WF_vars(QuerySettled)
    /\ WF_vars(\E p \in Procs, fail \in BOOLEAN : MutationServed(p, fail))
    /\ WF_vars(\E p \in Procs, fail \in BOOLEAN : AddExpenseInsert(p, fail))
    /\ WF_vars(\E p \in Procs, fail \in BOOLEAN : AddExpenseSelect(p, fail))
    /\ WF_vars(\E p \in Procs, fail \in BOOLEAN : AddExpenseUpdate(p, fail))
    /\ WF_vars(MutationSucceeded)
    /\ WF_vars(MutationFailed)
    /\ WF_vars(MutationSettled)

ClientLiveSpec == ClientSpec /\ ClientFairness

\* ----------------------------------------------------------- vocabulary
ExpenseMutations == {"addExpense", "deleteExpense", "updateExpense"}
Succeeded(r) == r.status \in {"200", "ok", "value"}
NotFound(r) == r.status \in {"404", "undefined"}

\* The vouchers whose expense set the finished expense mutation r touched:
\* the parent of the expense and, for an update that names a voucher_id,
\* that voucher.
Touched(r) ==
    ({r.evid} \cup (IF r.kind = "updateExpense" THEN r.body.voucher_id ELSE {}))
        \cap DOMAIN vouchers

TotalIsSum(v) == vouchers[v].total_amount = TotalOf(v)

\* The request accepted by the step: the one a process has begun, or, when
\* the handler finished within the step, the one just answered.
Accepted ==
    IF \E p \in Procs : req'[p] # req[p]
    THEN req'[CHOOSE p \in Procs : req'[p] # req[p]]
    ELSE response'

\* The voucher a request is about, as the store has it before the step: the
\* voucher named in the path, or the parent of the expense named in the path.
TargetVouchers(r) ==
    IF r.kind \in {"deleteExpense", "updateExpense"}
    THEN { expenses[e].voucher_id : e \in {r.eid} \cap DOMAIN expenses }
    ELSE {r.vid} \cap DOMAIN vouchers

Foreign(r) == \E v \in TargetVouchers(r) : vouchers[v].user_id # r.user

IsSubmit(r) ==
    \/ r.kind = "submitVoucher"
    \/ r.kind = "patchVoucher" /\ r.body.status = {"submitted"}

\* ----------------------------------------------------------------- claims

\* C1: after any sequence of successfully completed expense create, update
\* and delete operations on a voucher, each run to completion before the
\* next starts, the voucher's total_amount equals the sum of the amounts of
\* the expenses linked to it.  (Stated under SeqSpec, at the state in which
\* the mutation has just been answered.)
C1_TotalAfterMutation ==
    (response.kind \in ExpenseMutations /\ Succeeded(response) /\ NoneInFlight)
        => \A v \in Touched(response) : TotalIsSum(v)

\* C2: when expense mutations against the same voucher run concurrently,
\* their store calls interleaved in any order and none of them failing,
\* then once all have completed the voucher's total_amount equals the sum
\* of its expenses.
C2_TotalAfterConcurrentMutations ==
    (response.kind \in {"addExpense", "deleteExpense"} /\ Succeeded(response)
       /\ NoneInFlight /\ failures = 0 /\ response.evid \in DOMAIN vouchers)
        => TotalIsSum(response.evid)

\* C3: the expense write and the total recompute are one atomic unit: no
\* state has an expense insert or delete applied, its recompute failed (the
\* read of the amounts or the update of the voucher row returned an error)
\* and the caller answered with success.
C3_WriteAndRecomputeAtomic ==
    ~ /\ response.kind \in {"addExpense", "deleteExpense"}
      /\ response.expensesError \/ response.updateError
      /\ response.status = "200"
      /\ (response.kind = "addExpense") = (response.eid \in DOMAIN expenses)

\* C4: once a voucher's status is submitted, its expense set is frozen: no
\* step adds, changes or removes an expense of a submitted voucher.
C4_SubmittedFrozen ==
    [][\A v \in DOMAIN vouchers \cap DOMAIN vouchers' :
         (vouchers[v].status = "submitted" /\ vouchers'[v].status = "submitted")
           => /\ ExpensesOf(v)' = ExpensesOf(v)
              /\ \A e \in ExpensesOf(v) : expenses'[e] = expenses[e]]_vars

\* C5: every read or write attempted by a user on a voucher owned by a
\* different user (fetch, update, submit, delete, add an expense, update or
\* delete one of its expenses) is answered NotFound at once.
C5_ForeignIsNotFound ==
    [][(opCount' # opCount /\ failures' = failures /\ Foreign(Accepted))
         => (response' = Accepted /\ NotFound(Accepted))]_vars

\* C6: every stored expense with transport_type fuel and a distance has
\* amount = distance * 3.5, whatever amount the client sent.
C6_FuelAmountDerived ==
    \A e \in DOMAIN expenses :
        (expenses[e].transport_type = "fuel" /\ Present(expenses[e].distance))
            => expenses[e].amount = Val(expenses[e].distance) * FuelRate

\* C7: a voucher's status never goes back: once submitted, it is submitted
\* in every later state in which the voucher exists.
C7_SubmittedIsFinal ==
    [][\A v \in DOMAIN vouchers \cap DOMAIN vouchers' :
         vouchers[v].status = "submitted" => vouchers'[v].status = "submitted"]_vars

\* C8: submitting a voucher that is already submitted fails and leaves the
\* voucher row unchanged, its updated timestamp included.
C8_ResubmitRejected ==
    [][(opCount' # opCount /\ failures' = failures /\ IsSubmit(Accepted)
          /\ \E v \in TargetVouchers(Accepted) :
               vouchers[v].user_id = Accepted.user /\ vouchers[v].status = "submitted")
         => (~Succeeded(Accepted) /\ vouchers' = vouchers)]_vars

\* C9: a voucher's total_amount is never client-supplied: it changes only
\* in the step in which a handler writes back the sum it has computed over
\* the voucher's expenses.
C9_TotalOnlyRecomputed ==
    [][\A v \in DOMAIN vouchers \cap DOMAIN vouchers' :
         vouchers'[v].total_amount # vouchers[v].total_amount
           => \E p \in Procs :
                /\ req[p].pc \in {"update", "total"}
                /\ req[p].evid = v
                /\ req'[p].pc = "idle"
                /\ vouchers'[v].total_amount = req[p].total]_vars

\* C10: every voucher is created with status draft and total_amount 0,
\* whatever status or total the create request carries.
C10_CreatedDraftZero ==
    [][\A v \in DOMAIN vouchers' \ DOMAIN vouchers :
         vouchers'[v].status = "draft" /\ vouchers'[v].total_amount = 0]_vars

\* A create request that carried a status and a total has been answered
\* with success and its voucher is in the store.
C10_Witness ==
    /\ response.kind = "createVoucher" /\ response.status = "200"
    /\ Present(response.body.status) /\ Present(response.body.total_amount)
    /\ response.vid \in DOMAIN vouchers
    /\ vouchers[response.vid].updated_at = 0

\* C11: creating a voucher with start_date > end_date fails validation and
\* creates no voucher row; creating one with start_date = end_date (a
\* single-day trip) is accepted and the voucher is stored.
C11_DateRangeBoundary ==
    [][(opCount' # opCount /\ failures' = failures
          /\ Accepted.kind = "createVoucher" /\ ~MissingFields(Accepted.body))
         => LET b == Accepted.body
            IN  /\ b.start_date > b.end_date
                     => (~Succeeded(Accepted) /\ vouchers' = vouchers)
                /\ b.start_date = b.end_date
                     => (Succeeded(Accepted)
                           /\ Accepted.vid \in DOMAIN vouchers' \ DOMAIN vouchers)]_vars

\* C12: every expense row's voucher_id refers to an existing voucher, in
\* every reachable state, also when a voucher delete interleaves with an
\* add-expense on the same voucher.
C12_NoOrphanedExpenses ==
    \A e \in DOMAIN expenses : expenses[e].voucher_id \in DOMAIN vouchers

\* A voucher that had an expense has been deleted while an add-expense on
\* it had passed its ownership check and not yet inserted.
C12_Witness ==
    /\ response.kind = "deleteVoucher" /\ response.status = "200"
    /\ response.vid \notin DOMAIN vouchers
    /\ nextExpenseId > 1 /\ nextVoucherId = 2 /\ expenses = << >>
    /\ \E q \in Procs : /\ req[q].kind = "addExpense" /\ req[q].pc = "insert"
                         /\ req[q].vid = response.vid

\* The caller on whose behalf the step runs: the user of the request the
\* step accepts or continues.
Actor ==
    LET ps == { p \in Procs : req'[p] # req[p] }
    IN  IF ps = {} THEN response'.user
        ELSE LET p == CHOOSE q \in ps : TRUE
             IN  IF req[p].pc = "idle" THEN req'[p].user ELSE req[p].user

\* The step changes voucher v: its row (fields, status, total_amount), its
\* existence, or its expense set (an expense added, removed or rewritten).
VoucherChanged(v) ==
    \/ v \notin DOMAIN vouchers'
    \/ vouchers'[v] # vouchers[v]
    \/ ExpensesOf(v)' # ExpensesOf(v)
    \/ \E e \in ExpensesOf(v) : expenses'[e] # expenses[e]

\* C13: a voucher that does not exist and a voucher of another user are
\* indistinguishable: every voucher-scoped or expense-scoped request whose
\* target (the voucher, or the expense and through it its parent voucher)
\* does not exist or belongs to somebody else gets the same answer,
\* NotFound.
C13_MissingAndForeignAlike ==
    [][(opCount' # opCount /\ failures' = failures
          /\ Accepted.kind \notin {"createVoucher", "listVouchers"}
          /\ (TargetVouchers(Accepted) = {} \/ Foreign(Accepted)))
         => (response' = Accepted /\ NotFound(Accepted))]_vars

\* C14: no step run on behalf of caller A changes the fields, the status,
\* the total_amount or the expense set of a voucher whose user_id is not A.
C14_OnlyOwnerChanges ==
    [][\A v \in DOMAIN vouchers :
         VoucherChanged(v) => vouchers[v].user_id = Actor]_vars

\* C15: an expense's voucher_id never changes after the expense is created.
C15_ParentImmutable ==
    [][\A e \in DOMAIN expenses \cap DOMAIN expenses' :
         expenses'[e].voucher_id = expenses[e].voucher_id]_vars

\* C16: every stored expense has a strictly positive amount, and every
\* voucher's total_amount is non-negative, in every reachable state.
C16_AmountsPositive ==
    /\ \A e \in DOMAIN expenses : expenses[e].amount > 0
    /\ \A v \in DOMAIN vouchers : vouchers[v].total_amount >= 0

\* The caller identity of the handler that process p enters in this step.
HandlerUser(p) == IF req'[p] = Idle THEN response'.user ELSE req'[p].user

\* C17: a handler is entered only by a request whose credential the
\* identity provider has accepted, with the user id the provider returned
\* for that credential as its caller identity; a request whose credential
\* is missing, malformed, empty or rejected is answered 401 and changes
\* neither vouchers nor expenses, and never gets past the first test.
C17_HandlerAfterAuth ==
    [][/\ opCount' # opCount
            => \E p \in Procs :
                 /\ Entered(p) /\ req'[p] # req[p]
                 /\ IdentityOf(req[p].body.cred) = {HandlerUser(p)}
       /\ (response' # response /\ response'.kind = "verify"
             /\ IdentityOf(response'.body.cred) = {})
            => /\ response'.status = "401"
               /\ UNCHANGED <<vouchers, expenses, users>>
       /\ \A p \in Procs :
            req'[p].kind \in {"verify", "next"}
              => IdentityOf(req'[p].body.cred) # {}]_vars

\* A request with a refused credential has been answered 401 and a request
\* of user A has passed the middleware and stands at its handler.
C17_Witness ==
    /\ response.kind = "verify" /\ response.status = "401"
    /\ \E p \in Procs : Entered(p) /\ req[p].user = "A" /\ req[p].body.cred = "tokenA"

\* C18: with no store call failing, every request with a valid credential
\* gets through the middleware, also when several first requests of the
\* same new user run concurrently; and no user id has more than one row.
C18_ConcurrentFirstRequests ==
    ~ /\ response.kind = "verify"
      /\ IdentityOf(response.body.cred) # {}
      /\ response.status # "none"
      /\ failures = 0

\* C19: every user row has a non-empty department.
C19_DepartmentNonEmpty ==
    \A u \in DOMAIN users : users[u].department # ""

\* C20: in every voucher view answered, the single voucher and the list of
\* the caller's vouchers, the expenses of a voucher are in descending order
\* of datetime.
C20_ExpensesNewestFirst ==
    [][(response' # response /\ Succeeded(response'))
         => /\ response'.kind = "getVoucher" => OrderedDesc(response'.view.expenses)
            /\ response'.kind = "listVouchers"
                 => \A v \in DOMAIN response'.view.expenses :
                      OrderedDesc(response'.view.expenses[v])]_vars
\* The operations that answer with the caller's vouchers and their expenses.
ListKinds == {"listVouchers", "listVouchersTwoQueries", "getVouchersByUserId"}

\* The list r was answered and nothing has touched the store since.
Listed(r) == r.kind \in ListKinds /\ Succeeded(r) /\ NoneInFlight

\* C21: the list of user U's vouchers holds exactly the vouchers whose
\* user_id is U, and the expense list of each holds exactly the expenses
\* whose voucher_id is that voucher: none under another voucher, none
\* dropped, none twice.  (Stated at the state in which the list has just
\* been answered, with one request at a time.)
C21_ListExact ==
    Listed(response) =>
        /\ Range(response.view.vouchers) =
               { v \in DOMAIN vouchers : vouchers[v].user_id = response.user }
        /\ Len(response.view.vouchers) = Cardinality(Range(response.view.vouchers))
        /\ \A v \in Range(response.view.vouchers) :
               /\ Range(response.view.expenses[v]) = ExpensesOf(v)
               /\ Len(response.view.expenses[v]) = Cardinality(ExpensesOf(v))

\* C22: in every composed voucher view expenseCount is the length of the
\* returned expenses list, and a voucher with no expenses is returned with
\* an empty list, expenseCount 0 and total 0.  (Stated at the state in which
\* the list has just been answered, with one request at a time.)
C22_CountAndEmptyView ==
    Listed(response) =>
        \A v \in Range(response.view.vouchers) :
            /\ response.view.expenseCount[v] = Len(response.view.expenses[v])
            /\ ExpensesOf(v) = {} =>
                  /\ response.view.expenses[v] = << >>
                  /\ response.view.expenseCount[v] = 0
                  /\ response.view.totalAmount[v] = 0

\* C23: no store failure inside an operation is swallowed: when the fetch
\* of the expenses fails while listing, or the read or the write of the
\* total recompute fails, the operation answers with a failure, not with a
\* success.
C23_NoFailureSwallowed ==
    (response.expensesError \/ response.updateError) => ~Succeeded(response)

\* Process p is in a call of updateVoucherTotal on the voucher whose
\* recompute was the last thing answered: no expense has changed since.
SecondRecompute(p) ==
    /\ req[p].kind = "updateVoucherTotal" /\ req[p].pc = "total"
    /\ response.kind = "updateVoucherTotal" /\ response.status = "ok"
    /\ response.vid = req[p].vid

\* C24: the total recompute is idempotent: called twice in a row on the same
\* voucher with no expense change in between, it yields the same
\* total_amount both times, and the second call changes nothing but the
\* voucher's updated timestamp.
C24_RecomputeIdempotent ==
    [][\A p \in Procs :
         (SecondRecompute(p) /\ req'[p] = Idle /\ response'.status = "ok") =>
            /\ response'.total = response.total
            /\ expenses' = expenses
            /\ DOMAIN vouchers' = DOMAIN vouchers
            /\ \A v \in DOMAIN vouchers :
                  /\ vouchers'[v] = [vouchers[v] EXCEPT !.updated_at = vouchers'[v].updated_at]
                  /\ v # req[p].vid => vouchers'[v] = vouchers[v]]_vars

\* The second call has summed the expenses of a voucher that has one, after
\* the first call has written that total.
C24_Witness ==
    \E p \in Procs :
        /\ SecondRecompute(p)
        /\ req[p].vid \in DOMAIN vouchers
        /\ ExpensesOf(req[p].vid) # {}
        /\ req[p].total # 0
        /\ vouchers[req[p].vid].total_amount = response.total

\* C26: after creation the owning user_id of a voucher never changes: no
\* operation open to a client gives a voucher to another user.
C26_OwnerNeverChanges ==
    [][\A v \in DOMAIN vouchers \cap DOMAIN vouchers' :
         vouchers'[v].user_id = vouchers[v].user_id]_vars

\* C27: an expense create, update or delete, with the total recompute it
\* triggers on voucher V, leaves every other voucher as it was: no step of
\* the operation changes the total_amount, the status or the expense set of
\* a voucher W # V, where V is the voucher of the path or the parent of the
\* expense of the path.
C27_OtherVouchersUnchanged ==
    [][\A p \in Procs :
         (req[p].kind \in ExpenseMutations /\ req'[p] # req[p]) =>
            \A w \in DOMAIN vouchers \ {req[p].vid} :
                /\ w \in DOMAIN vouchers'
                /\ vouchers'[w].total_amount = vouchers[w].total_amount
                /\ vouchers'[w].status = vouchers[w].status
                /\ ExpensesOf(w)' = ExpensesOf(w)]_vars

\* C28: deleting the only remaining expense of a voucher leaves the voucher
\* and its status in place and, once the delete is answered with success,
\* the voucher's total_amount is 0.  (One request at a time.)
C28_LastExpenseDeleted ==
    [][\A p \in Procs : \A v \in {req[p].vid} \cap DOMAIN vouchers :
         (req[p].kind = "deleteExpense" /\ req'[p] # req[p]) =>
            /\ v \in DOMAIN vouchers'
            /\ vouchers'[v].status = vouchers[v].status
            /\ (req'[p] = Idle /\ Succeeded(response') /\ ExpensesOf(v)' = {})
                  => vouchers'[v].total_amount = 0]_vars

\* C29: in the client's add-expense flow the optimistic update adds exactly
\* one expense to the target voucher of the cached list (expenseCount + 1,
\* totalAmount + amount) and leaves the other vouchers untouched; when the
\* create request fails the cached list is again exactly the snapshot taken
\* before the optimistic update; and after success as after failure the
\* voucher query is invalidated, and a fetch of the list from the server
\* is eventually answered.
C29_OptimisticAddExpense ==
    /\ [][(client.mutation = "idle" /\ client'.mutation = "pending") =>
            \A v \in {client'.voucherId} :
               /\ client'.snapshot = client.cache
               /\ client'.cache.vouchers = client.cache.vouchers
               /\ Len(client'.cache.expenses[v]) = Len(client.cache.expenses[v]) + 1
               /\ SubSeq(client'.cache.expenses[v], 1, Len(client.cache.expenses[v]))
                     = client.cache.expenses[v]
               /\ client'.cache.expenseCount[v] = client.cache.expenseCount[v] + 1
               /\ client'.cache.totalAmount[v] =
                     client.cache.totalAmount[v] + Val(client'.newExpense.amount)
               /\ \A w \in Range(client.cache.vouchers) \ {v} :
                     /\ client'.cache.expenses[w] = client.cache.expenses[w]
                     /\ client'.cache.expenseCount[w] = client.cache.expenseCount[w]
                     /\ client'.cache.totalAmount[w] = client.cache.totalAmount[w]]_vars
    /\ [][(client.mutation = "pending" /\ client'.mutation = "error") =>
            client'.cache = client.snapshot]_vars
    /\ [][(client.mutation \in {"success", "error"} /\ client'.mutation = "idle") =>
            (client'.invalidated /\ client'.refetchDue)]_vars
    /\ (client.mutation \in {"success", "error"}) ~> (client.fetched # "none")

\* The create request has failed and the list of two vouchers is back to
\* the snapshot.
C29_Witness ==
    /\ client.mutation = "error"
    /\ client.cache # NoBody
    /\ client.cache = client.snapshot
    /\ Len(client.cache.vouchers) = 2

\* C30: a voucher submitted from the client's create-voucher form by an
\* authenticated user, with name and department filled in and the start
\* date strictly before the end date, is accepted by POST /api/vouchers and
\* stored as a draft voucher of that user.  (A request the store has failed
\* on, answered 500, is left aside.)
C30_FormVoucherAccepted ==
    (client.waiting = "form" /\ Answered /\ response.status # "500"
       /\ client.formData.name # "" /\ client.formData.department # ""
       /\ client.formData.startDate < client.formData.endDate) =>
        /\ response.status = "200"
        /\ response.vid \in DOMAIN vouchers
        /\ vouchers[response.vid].status = "draft"
        /\ vouchers[response.vid].user_id = ClientUser

====
